---- MODULE Spec2Model ----
(***************************************************************************)
(* A model of pyoutlineapi: the PyOutlineWrapper client (client.py) and    *)
(* the pydantic schemas it validates with (models.py).                      *)
(*                                                                         *)
(* One facade call is one action: the caller's arguments and the answer of *)
(* the transport (requests.Session.request) are drawn from small sets, and *)
(* the action computes, as the code does, the requests handed to the       *)
(* transport and the value returned or the exception raised.               *)
(***************************************************************************)
EXTENDS Integers, Sequences, FiniteSets, TLC

VARIABLES
    api_url,      \* self._api_url
    cert_sha256,  \* self._cert_sha256
    verify_tls,   \* self._verify_tls
    json_format,  \* self._json_format
    session,      \* self._session: the prefixes with a FingerprintAdapter mounted
    pc,           \* "idle": no call in progress; "done": a call has returned or raised
    call,         \* the facade call last made: operation and arguments
    reply,        \* what the transport answered in that call
    sent,         \* the requests handed to Session.request in that call, in order
    result,       \* what the call gave back to the caller
    earlier       \* history: how the calls made before this one ended

vars == <<api_url, cert_sha256, verify_tls, json_format, session, pc, call, reply, sent, result,
          earlier>>

config == <<api_url, cert_sha256, verify_tls, json_format, session>>

(***************************************************************************)
(* Python / JSON values.  Every scalar is a record of the same three       *)
(* fields so that any two values can be compared.                          *)
(***************************************************************************)
JStr(x)  == [t |-> "str",  s |-> x,  n |-> 0]
JInt(k)  == [t |-> "int",  s |-> "", n |-> k]
JBool(b) == [t |-> "bool", s |-> "", n |-> IF b THEN 1 ELSE 0]
\* Python None / JSON null
None     == [t |-> "null", s |-> "", n |-> 0]
\* a key that is not in the mapping at all
Absent   == [t |-> "absent", s |-> "", n |-> 0]
\* pydantic.SecretStr wrapping the string x
SecretStr(x) == [t |-> "secret", s |-> x, n |-> 0]
\* a JSON array / a JSON object used as a field value
JList(items) == [t |-> "list", s |-> "", n |-> 0, items |-> items]
JDict(map)   == [t |-> "dict", s |-> "", n |-> 0, map |-> map]
\* an instance of a pydantic model (ServerPort(port=k), DataLimit(bytes=k))
ModelInstance(cls, k) == [t |-> cls, s |-> "", n |-> k]

\* Mutant of Without: nothing is filtered out.
Without_KeepAll(obj, v) == obj

\* The mapping obj without the keys whose value is v.
Without(obj, v) == [k \in {x \in DOMAIN obj : obj[x] # v} |-> obj[k]]

(***************************************************************************)
(* models.py: the schemas.  A schema maps each field to its annotation.    *)
(* Every field of every schema is required: none has a default.            *)
(***************************************************************************)
StrT         == [k |-> "str",    optional |-> FALSE, hasGe |-> FALSE, ge |-> 0, hasLe |-> FALSE, le |-> 0]
BoolT        == [k |-> "bool",   optional |-> FALSE, hasGe |-> FALSE, ge |-> 0, hasLe |-> FALSE, le |-> 0]
IntGe(a)     == [k |-> "int",    optional |-> FALSE, hasGe |-> TRUE,  ge |-> a, hasLe |-> FALSE, le |-> 0]
IntIn(a, b)  == [k |-> "int",    optional |-> FALSE, hasGe |-> TRUE,  ge |-> a, hasLe |-> TRUE,  le |-> b]
SecretT      == [k |-> "secret", optional |-> FALSE, hasGe |-> FALSE, ge |-> 0, hasLe |-> FALSE, le |-> 0]
OptionalT(a) == [a EXCEPT !.optional = TRUE]

Server ==
    [name                 |-> StrT,
     serverId             |-> StrT,
     metricsEnabled       |-> BoolT,
     createdTimestampMs   |-> IntGe(0),
     portForNewAccessKeys |-> IntIn(1, 65535)]

DataLimit == [bytes |-> IntGe(0)]

AccessKey ==
    [id        |-> StrT,
     name      |-> StrT,
     password  |-> SecretT,
     port      |-> IntIn(1, 65535),
     method    |-> StrT,
     accessUrl |-> SecretT]

ServerPort == [port |-> IntIn(1, 65535)]

AccessKeyCreateRequest ==
    [name     |-> OptionalT(StrT),
     password |-> OptionalT(StrT),
     port     |-> OptionalT(IntIn(0, 65535))]

MetricsEnabled == [enabled |-> BoolT]

(***************************************************************************)
(* pydantic validation of one value against one annotation.  The inputs    *)
(* the model draws are of the annotated type or of a type pydantic does    *)
(* not coerce to it (a non-numeric string for an int, an int for a str).   *)
(***************************************************************************)
FieldOk(ann, v) ==
    \/ ann.optional /\ v = None
    \/ ann.k = "str"    /\ v.t = "str"
    \/ ann.k = "bool"   /\ v.t = "bool"
    \/ ann.k = "int"    /\ v.t = "int"
                        /\ (ann.hasGe => v.n >= ann.ge)
                        /\ (ann.hasLe => v.n <= ann.le)
    \/ ann.k = "secret" /\ v.t = "str" /\ v.s # ""

\* The fields of schema that obj lacks or holds an invalid value for.
FieldErrors(schema, obj) ==
    {f \in DOMAIN schema : f \notin DOMAIN obj \/ ~FieldOk(schema[f], obj[f])}

\* The value a validated field holds: a secret is wrapped, the rest kept.
FieldValue(ann, v) ==
    IF ann.k = "secret" /\ v.t = "str" THEN SecretStr(v.s) ELSE v

\* The instance built from a valid obj: the schema's fields, extras ignored.
Construct(schema, obj) ==
    [f \in DOMAIN schema |-> FieldValue(schema[f], obj[f])]

(***************************************************************************)
(* Validation of a whole input against a model class: the call model(obj).        *)
(* The result says whether pydantic accepts it, the instance it builds,    *)
(* and the errors it reports: the offending location and the input shown.  *)
(***************************************************************************)
\* One pydantic error line: a missing field shows the whole input mapping.
ErrorLine(obj, f) ==
    [loc |-> f, input |-> IF f \in DOMAIN obj THEN obj[f] ELSE JDict(obj)]

ValidateFlat(schema, obj) ==
    LET bad == FieldErrors(schema, obj)
    IN  [ok     |-> bad = {},
         data   |-> IF bad = {} THEN Construct(schema, obj) ELSE <<>>,
         errors |-> {ErrorLine(obj, f) : f \in bad}]

\* An element of accessKeys is accepted when it is a mapping valid for AccessKey.
AccessKeyItemOk(item) == item.t = "dict" /\ FieldErrors(AccessKey, item.map) = {}

\* The error lines of element i of accessKeys: one per offending field of the
\* element, showing that field's input (the element itself when it is missing).
ItemErrorLines(item, i) ==
    IF item.t # "dict"
    THEN {[loc |-> "accessKeys", input |-> item, item |-> i]}
    ELSE {[loc |-> f, input |-> ErrorLine(item.map, f).input, item |-> i] :
             f \in FieldErrors(AccessKey, item.map)}

\* AccessKeyList: accessKeys: List[AccessKey]
ValidateAccessKeyList(obj) ==
    LET present == "accessKeys" \in DOMAIN obj
        v  == IF present THEN obj["accessKeys"] ELSE Absent
        ok == /\ v.t = "list"
              /\ \A i \in 1..Len(v.items) : AccessKeyItemOk(v.items[i])
    IN  [ok     |-> ok,
         data   |-> IF ok
                    THEN [accessKeys |->
                            JList([i \in 1..Len(v.items) |->
                                     JDict(Construct(AccessKey, v.items[i].map))])]
                    ELSE <<>>,
         errors |-> IF ok THEN {}
                    ELSE IF v.t # "list" THEN {ErrorLine(obj, "accessKeys")}
                    ELSE UNION {ItemErrorLines(v.items[i], i) : i \in 1..Len(v.items)}]

\* Mutant of validate_bytes_transferred: no value is rejected.
validate_bytes_transferred_AcceptAll(value) ==
    \A user_id \in DOMAIN value : value[user_id].n = value[user_id].n

\* Metrics.validate_bytes_transferred: every value must be non-negative.
validate_bytes_transferred(value) ==
    \A user_id \in DOMAIN value : ~(value[user_id].n < 0)

\* Metrics: bytesTransferredByUserId: Dict[constr(min_length=1), int], then
\* the field validator on the parsed mapping.
ValidateMetrics(obj) ==
    LET present == "bytesTransferredByUserId" \in DOMAIN obj
        v  == IF present THEN obj["bytesTransferredByUserId"] ELSE Absent
        ok == /\ v.t = "dict"
              /\ \A k \in DOMAIN v.map : k # "" /\ v.map[k].t = "int"
              /\ validate_bytes_transferred(v.map)
    IN  [ok     |-> ok,
         data   |-> IF ok THEN [bytesTransferredByUserId |-> v] ELSE <<>>,
         errors |-> IF ok THEN {} ELSE {ErrorLine(obj, "bytesTransferredByUserId")}]

\* the call model(obj) for the model class named model.
Validate(model, obj) ==
    CASE model = "Server"                 -> ValidateFlat(Server, obj)
      [] model = "AccessKey"              -> ValidateFlat(AccessKey, obj)
      [] model = "AccessKeyCreateRequest" -> ValidateFlat(AccessKeyCreateRequest, obj)
      [] model = "AccessKeyList"          -> ValidateAccessKeyList(obj)
      [] model = "Metrics"                -> ValidateMetrics(obj)
      [] model = "ServerPort"             -> ValidateFlat(ServerPort, obj)
      [] model = "DataLimit"              -> ValidateFlat(DataLimit, obj)
      [] model = "MetricsEnabled"         -> ValidateFlat(MetricsEnabled, obj)

(***************************************************************************)
(* Serialisation of a validated instance.  A SecretStr is dumped masked.   *)
(***************************************************************************)
MaskedSecret == JStr("**********")

DumpScalar(v) ==
    IF v.t = "secret" THEN (IF v.s = "" THEN JStr("") ELSE MaskedSecret) ELSE v

DumpFlat(data) == [f \in DOMAIN data |-> DumpScalar(data[f])]

DumpValue(v) ==
    IF v.t = "list"
    THEN JList([i \in 1..Len(v.items) |-> JDict(DumpFlat(v.items[i].map))])
    ELSE DumpScalar(v)

\* data.model_dump_json(): the canonical text of the instance.
model_dump_json(data) ==
    [t |-> "text", s |-> "", n |-> 0, doc |-> [f \in DOMAIN data |-> DumpValue(data[f])]]

\* data.model_dump(mode="json"): the instance as a plain mapping.
model_dump(data) == JDict(DumpFlat(data))

\* A validated instance handed to the caller as it is.
Instance(data) == [t |-> "model", s |-> "", n |-> 0, doc |-> data]

(***************************************************************************)
(* Exceptions.  An exception is its class and its message; a message is a  *)
(* sequence of fragments, each a value as above; an interpolated exception *)
(* contributes its own fragments.                                          *)
(***************************************************************************)
Exc(kind, msg) == [kind |-> kind, msg |-> msg]

\* pyoutlineapi.exceptions: APIError is the general kind, the others refine it.
TaxonomyParent ==
    [APIError        |-> "Exception",
     HTTPError       |-> "APIError",
     RequestError    |-> "APIError",
     ValidationError |-> "APIError"]

\* The direct base class of the exceptions of requests, pydantic and Python
\* that the client imports or meets.
LibraryParent ==
    [PydanticValidationError    |-> "ValueError",
     RequestException           |-> "Exception",
     RequestsConnectionError    |-> "RequestException",
     RequestsTimeout            |-> "RequestException",
     RequestsSSLError           |-> "RequestsConnectionError",
     RequestsHTTPError          |-> "RequestException",
     RequestsJSONDecodeError    |-> "RequestException",
     JSONDecodeError            |-> "ValueError",
     ValueError                 |-> "Exception",
     TypeError                  |-> "Exception",
     KeyError                   |-> "Exception",
     AttributeError             |-> "Exception",
     Exception                  |-> "Exception"]

Parent == TaxonomyParent @@ LibraryParent

RECURSIVE IsSubclass(_, _)
IsSubclass(kind, cls) ==
    \/ kind = cls
    \/ kind # "Exception" /\ IsSubclass(Parent[kind], cls)

\* except (handlers...) catches exc
Catches(handlers, exc) == \E cls \in handlers : IsSubclass(exc.kind, cls)

\* The error taxonomy of pyoutlineapi.exceptions.
Taxonomy == {"APIError", "HTTPError", "RequestError", "ValidationError"}

(***************************************************************************)
(* Outcomes of a function: it returns val or raises exc; sent is the       *)
(* sequence of requests it handed to Session.request on the way.           *)
(***************************************************************************)
NoExc == Exc("none", <<>>)

Return(val, sent_) == [tag |-> "return", val |-> val,  exc |-> NoExc, sent |-> sent_]
Raise(exc, sent_)  == [tag |-> "raise",  val |-> None, exc |-> exc,   sent |-> sent_]

(***************************************************************************)
(* The transport: requests.Session.request and requests.Response.          *)
(***************************************************************************)
\* json.dumps accepts v: a pydantic instance anywhere in it is a TypeError.
Serializable(v) ==
    \/ v.t \in {"null", "str", "int", "bool"}
    \/ v.t = "dict" /\ \A k \in DOMAIN v.map : v.map[k].t \in {"null", "str", "int", "bool"}

\* self._session.request(method, url, json=..., verify=..., timeout=15):
\* the body is serialised first; then the environment's answer env decides.
SessionRequest(req, env) ==
    IF ~Serializable(req.json)
    THEN Raise(Exc("TypeError", <<JStr("is not JSON serializable")>>), <<req>>)
    ELSE IF env.conn # "ok"
    THEN Raise(Exc(env.conn, <<JStr(env.conn)>>), <<req>>)
    ELSE Return([status_code |-> env.status, body |-> env.body], <<req>>)

\* Mutant of raise_for_status: no status raises.
raise_for_status_Never(response) == Return(None, <<>>)

\* Mutant of raise_for_status: only a 5xx status raises.
raise_for_status_ServerErrorsOnly(response) ==
    IF 500 <= response.status_code /\ response.status_code < 600
    THEN Raise(Exc("RequestsHTTPError",
                   <<JInt(response.status_code), JStr("Error for url")>>), <<>>)
    ELSE Return(None, <<>>)

\* response.raise_for_status(): a 4xx or 5xx status raises requests.HTTPError.
raise_for_status(response) ==
    IF 400 <= response.status_code /\ response.status_code < 600
    THEN Raise(Exc("RequestsHTTPError",
                   <<JInt(response.status_code), JStr("Error for url")>>), <<>>)
    ELSE Return(None, <<>>)

\* response.json(): the decoded body, or the decode error of the requests in use.
ResponseJson(response) ==
    IF response.body.shape = "nojson"
    THEN Raise(Exc(response.body.exc, <<JStr("Expecting value")>>), <<>>)
    ELSE Return(response.body, <<>>)

\* response.text as a message fragment
ResponseText(response) == [t |-> "text", s |-> "", n |-> 0, body |-> response.body]

(***************************************************************************)
(* pyoutlineapi.exceptions, as the client uses it: the exception built     *)
(* from a message.                                                         *)
(***************************************************************************)
APIError(msg) == Exc("APIError", msg)

ValidationError(msg) == Exc("ValidationError", <<JStr("Validation error occurred:")>> \o msg)

\* The pydantic ValidationError raised for the errors reported.
PydanticValidationError(errors) ==
    Exc("PydanticValidationError",
        <<[t |-> "errors", s |-> "", n |-> Cardinality(errors), errors |-> errors]>>)

(***************************************************************************)
(* try / except: when one of handlers catches the exception of outcome o, *)
(* the exception raised by the handler, raised, takes its place;           *)
(* otherwise o stands.  Then(o, p) is the outcome p of a statement that    *)
(* follows the statements with outcome o.                                  *)
(***************************************************************************)
Try(o, handlers, raised) ==
    IF o.tag = "raise" /\ Catches(handlers, o.exc)
    THEN Raise(raised, o.sent)
    ELSE o

Then(o, p) == [p EXCEPT !.sent = o.sent \o @]

(***************************************************************************)
(* client.py: PyOutlineWrapper.  self is the instance's attributes, env    *)
(* the transport's answer to the request of this call.                     *)
(***************************************************************************)
RequestTimeout == 15

\* f"{self._api_url}/{endpoint}": the base URL and the path segments
Url(self, endpoint) == <<self.api_url>> \o endpoint

UrlText(url) == [t |-> "url", s |-> "", n |-> 0, url |-> url]

\* Mutant of RequestHandlers: requests' exceptions are not caught.
RequestHandlers_OnlyHTTPError == {"HTTPError"}

\* The except clause of _request.
RequestHandlers == {"RequestException", "HTTPError"}

_request(self, method, endpoint, json_data, env) ==
    LET url == Url(self, endpoint)
        req == [method  |-> method,
                url     |-> url,
                json    |-> json_data,
                verify  |-> self.verify_tls,
                timeout |-> RequestTimeout]
        response == SessionRequest(req, env)
        body == IF response.tag = "raise"
                THEN response
                ELSE LET status == raise_for_status(response.val)
                     IN  IF status.tag = "raise"
                         THEN Then(response, status)
                         ELSE response
        failed(exception) ==
            APIError(<<JStr("Request to"), UrlText(url), JStr("failed:")>> \o exception.msg)
    IN  Try(body, RequestHandlers, failed(body.exc))

\* The except clause of _parse_response.
ParseHandlers == {"PydanticValidationError"}

\* Mutant of _parse_response: the output-format flag is ignored.
_parse_response_AlwaysStructured(self, response, model) ==
    LET json == ResponseJson(response)
        body == IF json.tag = "raise"
                THEN json
                ELSE IF json.val.shape # "object"
                THEN Raise(Exc("TypeError", <<JStr("argument after ** must be a mapping")>>), <<>>)
                ELSE LET v == Validate(model, json.val.obj)
                     IN  IF ~v.ok
                         THEN Raise(PydanticValidationError(v.errors), <<>>)
                         ELSE Return(Instance(v.data), <<>>)
        invalid(e) == ValidationError(<<JStr("Validation error:")>> \o e.msg)
    IN  Try(body, ParseHandlers, invalid(body.exc))

_parse_response(self, response, model) ==
    LET json == ResponseJson(response)
        body == IF json.tag = "raise"
                THEN json
                ELSE IF json.val.shape # "object"
                THEN Raise(Exc("TypeError", <<JStr("argument after ** must be a mapping")>>), <<>>)
                ELSE LET v == Validate(model, json.val.obj)
                     IN  IF ~v.ok
                         THEN Raise(PydanticValidationError(v.errors), <<>>)
                         ELSE IF self.json_format
                         THEN Return(model_dump_json(v.data), <<>>)
                         ELSE Return(Instance(v.data), <<>>)
        invalid(e) == ValidationError(<<JStr("Validation error:")>> \o e.msg)
    IN  Try(body, ParseHandlers, invalid(body.exc))

\* The statements "response = self._request(...); return
\* self._parse_response(response, model)" shared by the three GET operations.
RequestThenParse(self, endpoint, model, env) ==
    LET response == _request(self, "GET", endpoint, None, env)
    IN  IF response.tag = "raise"
        THEN response
        ELSE Then(response, _parse_response(self, response.val, model))

get_server_info(self, env) ==
    LET failed(e) == ValidationError(<<JStr("Failed to get server info:")>> \o e.msg)
        body == RequestThenParse(self, <<"server">>, "Server", env)
    IN  Try(body, {"PydanticValidationError"}, failed(body.exc))

get_access_keys(self, env) ==
    LET failed(e) == ValidationError(<<JStr("Failed to get access keys:")>> \o e.msg)
        body == RequestThenParse(self, <<"access-keys">>, "AccessKeyList", env)
    IN  Try(body, {"PydanticValidationError"}, failed(body.exc))

get_metrics(self, env) ==
    LET failed(e) == ValidationError(<<JStr("Failed to get metrics:")>> \o e.msg)
        body == RequestThenParse(self, <<"metrics", "transfer">>, "Metrics", env)
    IN  Try(body, {"PydanticValidationError"}, failed(body.exc))

\* The except clause of create_access_key.
CreateHandlers == {"PydanticValidationError", "KeyError", "RequestException"}

\* The documented success status of create_access_key.
Created == 201

create_access_key(self, name, password, port, env) ==
    LET given == Without([name |-> name, password |-> password, port |-> port], None)
        \* "if request_data:" an empty mapping is false
        checked == IF DOMAIN given # {}
                   THEN LET v == Validate("AccessKeyCreateRequest", given)
                        IN  IF v.ok
                            THEN Return(model_dump(v.data), <<>>)
                            ELSE Raise(PydanticValidationError(v.errors), <<>>)
                   ELSE Return(None, <<>>)
        body == IF checked.tag = "raise"
                THEN checked
                ELSE LET response == _request(self, "POST", <<"access-keys">>, checked.val, env)
                     IN  IF response.tag = "raise"
                         THEN response
                         ELSE IF response.val.status_code = Created
                         THEN Then(response, _parse_response(self, response.val, "AccessKey"))
                         ELSE Raise(ValidationError(<<JStr("Failed to create access key:"),
                                                      JInt(response.val.status_code),
                                                      JStr("-"),
                                                      ResponseText(response.val)>>),
                                    response.sent)
        failed(e) == ValidationError(<<JStr("Failed to create access key:")>> \o e.msg)
    IN  Try(body, CreateHandlers, failed(body.exc))

\* The success status of the operations that return a boolean.
NoContent == 204

\* Mutant of StatusIsNoContent: any 2xx status counts as success.
StatusIsNoContent_Any2xx(response) == JBool(response.status_code \in 200..299)

\* "return response.status_code == 204"
StatusIsNoContent(response) == JBool(response.status_code = NoContent)

delete_access_key(self, key_id, env) ==
    LET response == _request(self, "DELETE", <<"access-keys", key_id>>, None, env)
        body == IF response.tag = "raise"
                THEN response
                ELSE Return(StatusIsNoContent(response.val), response.sent)
        failed(e) ==
            APIError(<<JStr("Failed to delete access key with ID"), JStr(key_id)>> \o e.msg)
    IN  Try(body, {"HTTPError"}, failed(body.exc))

\* The status update_server_port reads as a port conflict.
Conflict == 409

update_server_port(self, port, env) ==
    LET response == _request(self, "PUT", <<"server", "port-for-new-access-keys">>,
                             JDict([port |-> port]), env)
        body == IF response.tag = "raise"
                THEN response
                ELSE IF response.val.status_code = Conflict
                THEN Raise(APIError(<<JStr("Port"), port, JStr("is already in use")>>),
                           response.sent)
                ELSE Return(StatusIsNoContent(response.val), response.sent)
        failed(e) == APIError(<<JStr("Failed to update server port:")>> \o e.msg)
    IN  Try(body, {"PydanticValidationError", "APIError"}, failed(body.exc))

set_access_key_data_limit(self, key_id, limit, env) ==
    LET response == _request(self, "PUT", <<"access-keys", key_id, "data-limit">>,
                             JDict([bytes |-> limit]), env)
        body == IF response.tag = "raise"
                THEN response
                ELSE Return(StatusIsNoContent(response.val), response.sent)
        failed(e) ==
            APIError(<<JStr("Failed to set data limit for access key with ID"), JStr(key_id)>>
                     \o e.msg)
    IN  Try(body, {"PydanticValidationError", "APIError"}, failed(body.exc))

(***************************************************************************)
(* The inputs the model draws: the caller's arguments and the transport's  *)
(* answers.                                                                *)
(***************************************************************************)
\* The longest accessKeys array a response carries.
MaxKeys == 2

\* Status codes a response carries: the three success codes the operations
\* document, a status below 400 that is none of them, and client and server errors.
Statuses == {200, 201, 204, 304, 400, 404, 409, 500}

\* Exceptions Session.request raises when the connection fails.
ConnectionFailures == {"RequestsConnectionError", "RequestsTimeout", "RequestsSSLError"}

\* The decode error response.json() raises: requests' own (2.27 and later) or
\* the json module's (earlier).
DecodeErrors == {"RequestsJSONDecodeError", "JSONDecodeError"}

ObjectBodyOf(obj) == [shape |-> "object", exc |-> "none", obj |-> obj]
\* The bodies that are the JSON objects objs.
ObjectBody(objs) == {ObjectBodyOf(obj) : obj \in objs}

ArrayBody       == [shape |-> "array",  exc |-> "none", obj |-> <<>>]
NoJsonBody(exc) == [shape |-> "nojson", exc |-> exc,    obj |-> <<>>]

\* Bodies that are not a JSON object.
OddBodies == {ArrayBody} \cup {NoJsonBody(e) : e \in DecodeErrors}

ServerObjects ==
    {Without([name                 |-> a,
              serverId             |-> JStr("server_id"),
              metricsEnabled       |-> b,
              createdTimestampMs   |-> c,
              portForNewAccessKeys |-> d,
              unexpectedField      |-> e], Absent) :
        a \in {JStr("Test Server"), Absent},
        b \in {JBool(TRUE), JStr("maybe")},
        c \in {JInt(1234567890), JInt(-1)},
        d \in {JInt(443), JInt(0), JInt(65536)},
        e \in {JStr("unexpectedValue"), Absent}}

AccessKeyObjects ==
    {Without([id        |-> a,
              name      |-> JStr("Test Key"),
              password  |-> b,
              port      |-> c,
              method    |-> JStr("aes-256-cfb"),
              accessUrl |-> d], Absent) :
        a \in {JStr("key_id"), JInt(7)},
        b \in {JStr("secret_password"), JStr(""), Absent},
        c \in {JInt(1234), JInt(1), JInt(65535), JInt(70000)},
        d \in {JStr("ss://example"), JStr(""), Absent}}

\* The elements an accessKeys array is made of: two valid keys, one invalid.
AccessKeyItems ==
    {JDict([id        |-> JStr(a),
            name      |-> JStr("Test Key"),
            password  |-> JStr(b),
            port      |-> JInt(1234),
            method    |-> JStr("aes-256-cfb"),
            accessUrl |-> JStr("ss://example")]) :
        a \in {"key_id1", "key_id2"}, b \in {"secret_password"}}
    \cup
    {JDict([id        |-> JStr("key_id3"),
            name      |-> JStr("Test Key"),
            password  |-> JStr(""),
            port      |-> JInt(1234),
            method    |-> JStr("aes-256-cfb"),
            accessUrl |-> JStr("ss://example")])}

AccessKeyListObjects ==
    {[accessKeys |-> JList(items)] :
        items \in UNION {[1..k -> AccessKeyItems] : k \in 0..MaxKeys}}
    \cup {[accessKeys |-> JStr("none")], [unexpectedField |-> JStr("unexpectedValue")]}

MetricsObjects ==
    {[bytesTransferredByUserId |-> JDict(m)] :
        m \in UNION {[D -> {JInt(12345), JInt(0), JInt(-100), JStr("many")}] :
                        D \in SUBSET {"user1", ""}}}
    \cup {[unexpectedField |-> JStr("unexpectedValue")]}

\* The answers of the transport to a request whose response body is among bodies.
Replies(bodies) ==
    {[conn |-> c, status |-> 0, body |-> NoJsonBody("RequestsJSONDecodeError")] :
        c \in ConnectionFailures}
    \cup
    {[conn |-> "ok", status |-> st, body |-> b] : st \in Statuses, b \in bodies}

\* The body of a response nobody reads: empty.
EmptyBody == {NoJsonBody("RequestsJSONDecodeError")}

\* No request went out, so there is no answer.
NoReply == [conn |-> "none", status |-> 0, body |-> NoJsonBody("RequestsJSONDecodeError")]

KeyIds == {"key_id", "other_key"}

\* Arguments of create_access_key
Names     == {None, JStr("User1")}
Passwords == {None, JStr("securepassword")}
Ports     == {None, JInt(0), JInt(8080), JInt(65535), JInt(65536), JInt(-1)}

\* Arguments of update_server_port: a raw integer or a ServerPort instance,
\* which exists only with a port its schema accepts.
RawPorts  == {JInt(1234), JInt(1), JInt(0), JInt(65536), JInt(-1)}
PortArgs  == RawPorts \cup
             {ModelInstance("ServerPort", v.n) :
                 v \in {x \in RawPorts : FieldErrors(ServerPort, [port |-> x]) = {}}}

\* Arguments of set_access_key_data_limit: a raw integer or a DataLimit instance.
RawLimits == {JInt(1000), JInt(0), JInt(-1)}
LimitArgs == RawLimits \cup
             {ModelInstance("DataLimit", v.n) :
                 v \in {x \in RawLimits : FieldErrors(DataLimit, [bytes |-> x]) = {}}}

\* model(obj) as a statement of the caller: the instance, or pydantic's
\* ValidationError.
NewModel(model, obj) ==
    LET v == Validate(model, obj)
    IN  IF v.ok
        THEN Return(Instance(v.data), <<>>)
        ELSE Raise(PydanticValidationError(v.errors), <<>>)

\* The model classes of pyoutlineapi.models.
ModelClasses ==
    {"Server", "DataLimit", "AccessKey", "ServerPort", "AccessKeyCreateRequest",
     "AccessKeyList", "MetricsEnabled", "Metrics"}

\* Port numbers given to a constructor: the ends of the range, their
\* neighbours outside it, a negative one and an ordinary one.
PortValues == {JInt(-1), JInt(0), JInt(1), JInt(12345), JInt(65535), JInt(65536)}

\* Keyword arguments given to the constructor of a model class.
ConstructorInputs(model) ==
    CASE model = "Server" ->
             {[name                 |-> JStr("Test Server"),
               serverId             |-> JStr("server-id"),
               metricsEnabled       |-> JBool(TRUE),
               createdTimestampMs   |-> c,
               portForNewAccessKeys |-> p] :
                 c \in {JInt(1234567890), JInt(-1)}, p \in PortValues}
      [] model = "AccessKey" ->
             {[id        |-> JStr("access-key-id"),
               name      |-> JStr("test-key"),
               password  |-> a,
               port      |-> p,
               method    |-> JStr("aes-256-cfb"),
               accessUrl |-> b] :
                 a \in {JStr("test-password"), JStr("")}, p \in PortValues,
                 b \in {JStr("ss://example"), JStr("")}}
      [] model = "ServerPort" -> {[port |-> p] : p \in PortValues \cup {JStr("https")}}
      [] model = "DataLimit"  -> {[bytes |-> b] : b \in {JInt(-1), JInt(0), JInt(1048576)}}
      [] model = "AccessKeyCreateRequest" ->
             {Without([name |-> a, password |-> b, port |-> p], Absent) :
                 a \in {JStr("User1"), None},
                 b \in {JStr("securepassword"), None},
                 p \in PortValues \cup {None, Absent}}
      [] model = "AccessKeyList"  -> AccessKeyListObjects
      [] model = "MetricsEnabled" -> {[enabled |-> e] : e \in {JBool(TRUE), JBool(FALSE), JStr("maybe")}}
      [] model = "Metrics"        -> MetricsObjects

(***************************************************************************)
(* The state machine.                                                      *)
(***************************************************************************)
NoCall   == [op |-> "none", args |-> <<>>]
NoResult == [tag |-> "none", val |-> None, exc |-> NoExc]

\* The instance's attributes, as the methods read them.
Self == [api_url     |-> api_url,
         cert_sha256 |-> cert_sha256,
         verify_tls  |-> verify_tls,
         json_format |-> json_format]

\* PyOutlineWrapper.__init__
Init ==
    /\ api_url = "https://api.example.com"
    /\ cert_sha256 = "dummy_sha256"
    /\ verify_tls \in BOOLEAN
    /\ json_format \in BOOLEAN
    /\ session = [prefix |-> api_url, fingerprint |-> cert_sha256]
    /\ pc = "idle"
    /\ call = NoCall
    /\ reply = NoReply
    /\ sent = <<>>
    /\ result = NoResult
    /\ earlier = {}

\* A request of the call got as far as the environment's answer.
Answered(o) == o.sent # <<>> /\ Serializable(o.sent[1].json)

\* Mutant of Finish: the instance keeps the last value it returned, and the
\* output format follows it.
Finish_RetainsOutcome(op, args, env, o) ==
    /\ pc' = "done"
    /\ call' = [op |-> op, args |-> args]
    /\ reply' = IF Answered(o) THEN env ELSE NoReply
    /\ sent' = o.sent
    /\ result' = [tag |-> o.tag, val |-> o.val, exc |-> o.exc]
    /\ json_format' = (o.tag = "return")
    /\ UNCHANGED <<api_url, cert_sha256, verify_tls, session, earlier>>

\* The caller makes the call op(args); the call ends with outcome o, having
\* seen the answer env if a request went out.
Finish(op, args, env, o) ==
    /\ pc' = "done"
    /\ call' = [op |-> op, args |-> args]
    /\ reply' = IF Answered(o) THEN env ELSE NoReply
    /\ sent' = o.sent
    /\ result' = [tag |-> o.tag, val |-> o.val, exc |-> o.exc]
    /\ UNCHANGED config
    /\ UNCHANGED earlier

GetServerInfo ==
    /\ pc = "idle"
    /\ \E env \in Replies(ObjectBody(ServerObjects) \cup OddBodies) :
           Finish("get_server_info", <<>>, env, get_server_info(Self, env))

CreateAccessKey ==
    /\ pc = "idle"
    /\ \E name \in Names, password \in Passwords, port \in Ports,
          env \in Replies(ObjectBody(AccessKeyObjects) \cup OddBodies) :
           Finish("create_access_key", <<name, password, port>>, env,
                  create_access_key(Self, name, password, port, env))

GetAccessKeys ==
    /\ pc = "idle"
    /\ \E env \in Replies(ObjectBody(AccessKeyListObjects) \cup OddBodies) :
           Finish("get_access_keys", <<>>, env, get_access_keys(Self, env))

DeleteAccessKey ==
    /\ pc = "idle"
    /\ \E key_id \in KeyIds, env \in Replies(EmptyBody) :
           Finish("delete_access_key", <<JStr(key_id)>>, env,
                  delete_access_key(Self, key_id, env))

UpdateServerPort ==
    /\ pc = "idle"
    /\ \E port \in PortArgs, env \in Replies(EmptyBody) :
           Finish("update_server_port", <<port>>, env, update_server_port(Self, port, env))

SetAccessKeyDataLimit ==
    /\ pc = "idle"
    /\ \E key_id \in KeyIds, limit \in LimitArgs, env \in Replies(EmptyBody) :
           Finish("set_access_key_data_limit", <<JStr(key_id), limit>>, env,
                  set_access_key_data_limit(Self, key_id, limit, env))

GetMetrics ==
    /\ pc = "idle"
    /\ \E env \in Replies(ObjectBody(MetricsObjects) \cup OddBodies) :
           Finish("get_metrics", <<>>, env, get_metrics(Self, env))

\* The methods class PyOutlineWrapper defines for callers.
Methods ==
    {"get_server_info", "create_access_key", "get_access_keys", "delete_access_key",
     "update_server_port", "set_access_key_data_limit", "get_metrics"}

\* wrapper.name: the attribute lookup of a method on the instance.  A name the
\* class does not define raises AttributeError before anything is called.
getattr(self, name) ==
    IF name \in Methods
    THEN Return(JStr(name), <<>>)
    ELSE Raise(Exc("AttributeError",
                   <<JStr("'PyOutlineWrapper' object has no attribute"), JStr(name)>>), <<>>)

\* self.api.set_metrics_enabled(True), the call of tests/test_client.py of the
\* src package: the class has no such method, the lookup fails.
SetMetricsEnabled ==
    /\ pc = "idle"
    /\ \E enabled \in BOOLEAN :
           Finish("set_metrics_enabled", <<JBool(enabled)>>, NoReply,
                  getattr(Self, "set_metrics_enabled"))

\* The caller constructs an instance of a model class itself, as
\* tests/test_models.py does: ServerPort(port=70000), DataLimit(bytes=-1), ...
Instantiate ==
    /\ pc = "idle"
    /\ \E model \in ModelClasses :
           \E obj \in ConstructorInputs(model) :
               Finish(model, <<JDict(obj)>>, NoReply, NewModel(model, obj))

\* The caller has the outcome of its call and goes on to the next one.
CallerContinues ==
    /\ pc = "done"
    /\ pc' = "idle"
    /\ call' = NoCall
    /\ reply' = NoReply
    /\ sent' = <<>>
    /\ result' = NoResult
    /\ UNCHANGED config
    /\ earlier' = earlier \cup {result.tag}

Next ==
    \/ GetServerInfo
    \/ CreateAccessKey
    \/ GetAccessKeys
    \/ DeleteAccessKey
    \/ UpdateServerPort
    \/ SetAccessKeyDataLimit
    \/ GetMetrics
    \/ SetMetricsEnabled
    \/ Instantiate
    \/ CallerContinues

Spec == Init /\ [][Next]_vars

(***************************************************************************)
(* Vocabulary of the properties.                                           *)
(***************************************************************************)
Operations ==
    {"get_server_info", "create_access_key", "get_access_keys", "delete_access_key",
     "update_server_port", "set_access_key_data_limit", "get_metrics"}

ValueOperations   == {"get_server_info", "create_access_key", "get_access_keys", "get_metrics"}
BooleanOperations == {"delete_access_key", "update_server_port", "set_access_key_data_limit"}
BodyOperations    == {"create_access_key", "update_server_port", "set_access_key_data_limit"}

\* The success code the operation table documents for a value-returning operation.
SuccessCode(op) == IF op = "create_access_key" THEN 201 ELSE 200

\* The response schema of a value-returning operation.
ResponseModel(op) ==
    CASE op = "get_server_info"   -> "Server"
      [] op = "create_access_key" -> "AccessKey"
      [] op = "get_access_keys"   -> "AccessKeyList"
      [] op = "get_metrics"       -> "Metrics"

Called(op)   == pc = "done" /\ call.op = op
CalledIn(S)  == pc = "done" /\ call.op \in S
Returned     == result.tag = "return"
Raised       == result.tag = "raise"
RaisedA(k)   == result.tag = "raise" /\ result.exc.kind = k
\* The call received a response (a status code and a body).
GotResponse  == reply.conn = "ok"
IsErrorStatus(st) == 400 <= st /\ st < 600
Fragments(msg) == {msg[i] : i \in 1..Len(msg)}

(***************************************************************************)
(* C1.  Every call of a public operation, whatever the transport does and  *)
(* whatever status and body come back, either returns a value or raises an *)
(* error of the taxonomy (APIError, HTTPError, ValidationError); no other  *)
(* kind of error reaches the caller.                                       *)
(***************************************************************************)
C1_ClosedTaxonomy ==
    CalledIn(Operations) => Returned \/ (Raised /\ result.exc.kind \in Taxonomy)

BodyValidFor(op) ==
    /\ reply.body.shape = "object"
    /\ Validate(ResponseModel(op), reply.body.obj).ok

C5_ConflictIdentified ==
    (Called("update_server_port") /\ GotResponse /\ reply.status = 409) =>
        /\ Raised
        /\ \/ result.exc.kind = "HTTPError"
           \/ JStr("is already in use") \in Fragments(result.exc.msg)

(***************************************************************************)
(* C6.  create_access_key raises ValidationError whenever the response     *)
(* status is not 201, 4xx and 5xx included.                                *)
(***************************************************************************)
C6_Not201IsValidationError ==
    (Called("create_access_key") /\ GotResponse /\ reply.status # 201)
        => RaisedA("ValidationError")

\* The arguments of the create_access_key call made, by field.
CreateArgs == [name |-> call.args[1], password |-> call.args[2], port |-> call.args[3]]
\* The arguments supplied: those that are not None.
Supplied == [f \in {g \in DOMAIN CreateArgs : CreateArgs[g] # None} |-> CreateArgs[f]]

\* The one request a call to POST access-keys makes carries body.
SentOnePost(body) ==
    /\ Len(sent) = 1
    /\ sent[1].method = "POST"
    /\ sent[1].url = <<api_url, "access-keys">>
    /\ sent[1].json = body

(***************************************************************************)
(* C7.  create_access_key with at least one of name, password and port     *)
(* supplied, each supplied value within its field's constraint, sends      *)
(* exactly one POST access-keys whose body holds exactly the supplied      *)
(* fields.                                                                 *)
(***************************************************************************)
C7_SuppliedFieldsAreSent ==
    (/\ Called("create_access_key")
     /\ DOMAIN Supplied # {}
     /\ \A f \in DOMAIN Supplied : FieldOk(AccessKeyCreateRequest[f], Supplied[f]))
        => SentOnePost(JDict(Supplied))

\* get_secret_value() of a secret field, the value itself of any other.
Plain(v) == IF v.t = "secret" THEN JStr(v.s) ELSE v

\* The value returned is an AccessKey instance holding the response's values.
ReturnedAccessKeyOfResponse ==
    /\ Returned
    /\ result.val.t = "model"
    /\ DOMAIN result.val.doc = DOMAIN AccessKey
    /\ \A f \in DOMAIN AccessKey : Plain(result.val.doc[f]) = reply.body.obj[f]

\* The response is a 201 whose body is an object with every AccessKey field.
CreatedWithAllFields ==
    /\ GotResponse /\ reply.status = 201
    /\ reply.body.shape = "object"
    /\ DOMAIN AccessKey \subseteq DOMAIN reply.body.obj

(***************************************************************************)
(* C8.  As claimed: create_access_key with no arguments sends one POST     *)
(* access-keys with no body, and a 201 response with every required        *)
(* AccessKey field makes it return an AccessKey with the response's        *)
(* values.                                                                 *)
(***************************************************************************)
C8_NoArgsNoBody_Populated ==
    (Called("create_access_key") /\ DOMAIN Supplied = {}) =>
        /\ SentOnePost(None)
        /\ CreatedWithAllFields => ReturnedAccessKeyOfResponse

(***************************************************************************)
(* C8, amended.  create_access_key with no arguments sends one POST        *)
(* access-keys with no body; a 201 response whose body holds every         *)
(* AccessKey field with a value its constraint accepts makes it return,    *)
(* on a client built with the output-format flag off, an AccessKey with    *)
(* the response's values.                                                  *)
(***************************************************************************)
C8_NoArgsNoBody_PopulatedWhenValid ==
    (Called("create_access_key") /\ DOMAIN Supplied = {}) =>
        /\ SentOnePost(None)
        /\ (CreatedWithAllFields /\ BodyValidFor("create_access_key") /\ ~json_format)
              => ReturnedAccessKeyOfResponse

C8_Witness ==
    /\ Called("create_access_key") /\ DOMAIN Supplied = {}
    /\ CreatedWithAllFields /\ ~json_format
    /\ ReturnedAccessKeyOfResponse

\* The input of the call made violates the schema of its request body.
InputViolatesSchema ==
    \/ /\ call.op = "create_access_key"
       /\ \E f \in DOMAIN Supplied : ~FieldOk(AccessKeyCreateRequest[f], Supplied[f])
    \/ /\ call.op = "update_server_port"
       /\ call.args[1].t = "int"
       /\ FieldErrors(ServerPort, [port |-> call.args[1]]) # {}
    \/ /\ call.op = "set_access_key_data_limit"
       /\ call.args[2].t = "int"
       /\ FieldErrors(DataLimit, [bytes |-> call.args[2]]) # {}

(***************************************************************************)
(* C9.  An operation with a request body rejects an input that violates    *)
(* the request schema with an error, and no request reaches the transport  *)
(* in that call.                                                           *)
(***************************************************************************)
C9_InvalidInputNeverSent ==
    (CalledIn(BodyOperations) /\ InputViolatesSchema) => (Raised /\ sent = <<>>)

(***************************************************************************)
(* C10.  A value-returning operation given a success-status response       *)
(* whose JSON body violates the target schema raises ValidationError; it   *)
(* never returns.                                                          *)
(***************************************************************************)
C10_SchemaViolationIsValidationError ==
    (/\ CalledIn(ValueOperations)
     /\ GotResponse /\ reply.status = SuccessCode(call.op)
     /\ reply.body.shape # "nojson"
     /\ ~BodyValidFor(call.op))
        => RaisedA("ValidationError")

\* The part of C10 that holds: a JSON object the schema rejects.
C10_RejectedObjectIsValidationError ==
    (/\ CalledIn(ValueOperations)
     /\ GotResponse /\ reply.status = SuccessCode(call.op)
     /\ reply.body.shape = "object"
     /\ ~BodyValidFor(call.op))
        => RaisedA("ValidationError")

(***************************************************************************)
(* C11.  delete_access_key(id) sends DELETE access-keys/{id}; given a 204  *)
(* response it returns true, and given a 404 response it raises APIError   *)
(* instead of returning false.                                             *)
(***************************************************************************)
C11_Delete204True_404Raises ==
    Called("delete_access_key") =>
        /\ Len(sent) = 1
        /\ sent[1].method = "DELETE"
        /\ sent[1].url = <<api_url, "access-keys", call.args[1].s>>
        /\ (GotResponse /\ reply.status = 204) => (Returned /\ result.val = JBool(TRUE))
        /\ (GotResponse /\ reply.status = 404) => RaisedA("APIError")

C11_Witness ==
    Called("delete_access_key") /\ GotResponse /\ reply.status = 404 /\ RaisedA("APIError")

(***************************************************************************)
(* C12.  The facade exposes one operation per row of the operation table,  *)
(* with that row's method and path; in particular set_metrics_enabled      *)
(* exists: a call of it sends one PUT server/metrics/enabled whose body is *)
(* {enabled: the argument}, and what it returns is a validated             *)
(* MetricsEnabled.                                                         *)
(***************************************************************************)
TableOperations == Operations \cup {"set_metrics_enabled"}

TableMethod(op) ==
    CASE op \in {"get_server_info", "get_access_keys", "get_metrics"} -> "GET"
      [] op = "create_access_key" -> "POST"
      [] op = "delete_access_key" -> "DELETE"
      [] op \in {"update_server_port", "set_access_key_data_limit",
                 "set_metrics_enabled"} -> "PUT"

TablePath(op, args) ==
    CASE op = "get_server_info"           -> <<"server">>
      [] op = "create_access_key"         -> <<"access-keys">>
      [] op = "get_access_keys"           -> <<"access-keys">>
      [] op = "delete_access_key"         -> <<"access-keys", args[1].s>>
      [] op = "update_server_port"        -> <<"server", "port-for-new-access-keys">>
      [] op = "set_access_key_data_limit" -> <<"access-keys", args[1].s, "data-limit">>
      [] op = "set_metrics_enabled"       -> <<"server", "metrics", "enabled">>
      [] op = "get_metrics"               -> <<"metrics", "transfer">>

SentPerRow ==
    \A i \in 1..Len(sent) :
        /\ sent[i].method = TableMethod(call.op)
        /\ sent[i].url = <<api_url>> \o TablePath(call.op, call.args)

C12_OneOperationPerTableRow ==
    /\ CalledIn(TableOperations) => SentPerRow
    /\ Called("set_metrics_enabled") =>
           /\ ~RaisedA("AttributeError")
           /\ Len(sent) = 1
           /\ sent[1].json = JDict([enabled |-> call.args[1]])
           /\ Returned => result.val.doc \in {[enabled |-> JBool(b)] : b \in BOOLEAN}

\* The rows that do have a method send that row's method and path.
C12_ExistingRowsMatchTable == CalledIn(Operations) => SentPerRow

\* The integer an argument of update_server_port or set_access_key_data_limit
\* stands for, given raw or as a typed record.
IntegerOf(arg) == JInt(arg.n)

\* The body the operation's row of the table gives the request.
OperationBody ==
    CASE call.op = "create_access_key" ->
             IF DOMAIN Supplied = {} THEN None ELSE JDict(Supplied)
      [] call.op = "update_server_port" -> JDict([port |-> IntegerOf(call.args[1])])
      [] call.op = "set_access_key_data_limit" -> JDict([bytes |-> IntegerOf(call.args[2])])
      [] OTHER -> None

(***************************************************************************)
(* C13.  Every facade call whose request input is valid issues exactly one *)
(* HTTP request, with the operation's method, the URL of the base and the  *)
(* operation's path, the operation's body and the configured TLS flag,     *)
(* and then returns or raises; no call issues more than one request.       *)
(***************************************************************************)
C13_ExactlyOneRequest ==
    /\ Len(sent) <= 1
    /\ (CalledIn(Operations) /\ ~InputViolatesSchema) =>
           /\ Len(sent) = 1
           /\ SentPerRow
           /\ sent[1].json = OperationBody
           /\ Serializable(sent[1].json)
           /\ sent[1].verify = verify_tls
           /\ Returned \/ Raised

\* The part that holds: no call hands the transport more than one request,
\* and a call that does, hands it the row's method and path, the configured
\* TLS flag and the timeout.
C13_AtMostOneRequest ==
    /\ Len(sent) <= 1
    /\ CalledIn(Operations) =>
           /\ SentPerRow
           /\ \A i \in 1..Len(sent) :
                  sent[i].verify = verify_tls /\ sent[i].timeout = RequestTimeout
           /\ Returned \/ Raised

\* All three of name, password and port given, or none of them.
AllOrNoCreateArgs == call.op = "create_access_key" => DOMAIN Supplied \in {{}, DOMAIN CreateArgs}

\* The argument of a PUT operation is a raw integer.
RawArgument ==
    /\ call.op = "update_server_port" => call.args[1].t = "int"
    /\ call.op = "set_access_key_data_limit" => call.args[2].t = "int"

\* Apart from the calls C7 and C19 are about (create_access_key with some but
\* not all of its arguments, a typed record as argument), a call with valid
\* input issues exactly one request, the operation's.
C13_ExactlyOneRequest_OtherCalls ==
    (CalledIn(Operations) /\ ~InputViolatesSchema /\ AllOrNoCreateArgs /\ RawArgument) =>
        /\ Len(sent) = 1
        /\ SentPerRow
        /\ sent[1].json = OperationBody
        /\ Serializable(sent[1].json)
        /\ sent[1].verify = verify_tls
        /\ Returned \/ Raised

\* The outcome of the call c on the instance self when the transport answers env.
Outcome(self, c, env) ==
    CASE c.op = "get_server_info"   -> get_server_info(self, env)
      [] c.op = "create_access_key" ->
             create_access_key(self, c.args[1], c.args[2], c.args[3], env)
      [] c.op = "get_access_keys"   -> get_access_keys(self, env)
      [] c.op = "delete_access_key" -> delete_access_key(self, c.args[1].s, env)
      [] c.op = "update_server_port" -> update_server_port(self, c.args[1], env)
      [] c.op = "set_access_key_data_limit" ->
             set_access_key_data_limit(self, c.args[1].s, c.args[2], env)
      [] c.op = "get_metrics"       -> get_metrics(self, env)
      [] c.op = "set_metrics_enabled" -> getattr(self, c.op)
      [] c.op \in ModelClasses -> NewModel(c.op, c.args[1].map)

ResultOf(o) == [tag |-> o.tag, val |-> o.val, exc |-> o.exc]

\* The instance as __init__ is given it.
Constructed(url, sha, tls, fmt) ==
    [api_url |-> url, cert_sha256 |-> sha, verify_tls |-> tls, json_format |-> fmt]

OtherFormat == [Self EXCEPT !.json_format = ~json_format]

SecretFields == {"password", "accessUrl"}

\* Another secret in the place of a secret: a non-empty string for a
\* non-empty string, anything else left as it is.
OtherSecret(v) == IF v.t = "str" /\ v.s # "" THEN JStr("another secret") ELSE v

ResecretMap(obj) ==
    [f \in DOMAIN obj |-> IF f \in SecretFields THEN OtherSecret(obj[f]) ELSE obj[f]]

ResecretItem(item) == IF item.t = "dict" THEN JDict(ResecretMap(item.map)) ELSE item

\* The answer env with every secret of its body replaced by another one:
\* the two answers differ in their secrets only.
Resecret(env) ==
    [env EXCEPT !.body.obj =
        [f \in DOMAIN @ |->
            IF f = "accessKeys" /\ @[f].t = "list"
            THEN JList([i \in 1..Len(@[f].items) |-> ResecretItem(@[f].items[i])])
            ELSE ResecretMap(@)[f]]]

SecretOperations == {"create_access_key", "get_access_keys"}

(***************************************************************************)
(* C16.  password and accessUrl never appear in plaintext in a text the    *)
(* client produces: for two responses that differ only in their secrets,   *)
(* create_access_key and get_access_keys end the same way, the text        *)
(* rendering they return is the same, and the error they raise has the     *)
(* same message.                                                           *)
(***************************************************************************)
C16_SecretsNeverInText ==
    (CalledIn(SecretOperations) /\ GotResponse) =>
        LET other == Outcome(Self, call, Resecret(reply))
        IN  /\ other.tag = result.tag
            /\ (Returned /\ result.val.t = "text") => other.val = result.val
            /\ Raised => other.exc = result.exc

\* The error message shows the body of the response as the server sent it.
MessageShowsResponseText == \E m \in Fragments(result.exc.msg) : m.t = "text"

\* The error message has a pydantic error line that shows a mapping given as
\* input (a field is missing from it).
MessageShowsInputMapping ==
    \E m \in Fragments(result.exc.msg) :
        m.t = "errors" /\ \E line \in m.errors : line.input.t = "dict"

\* Where the secrets do stay out of the text: the text rendering returned
\* masks them, and an error message shows them only through the response
\* text or through an input mapping.
C16_SecretsOnlyInErrorMessages ==
    (CalledIn(SecretOperations) /\ GotResponse) =>
        LET other == Outcome(Self, call, Resecret(reply))
        IN  /\ other.tag = result.tag
            /\ (Returned /\ result.val.t = "text") => other.val = result.val
            /\ (Raised /\ ~MessageShowsResponseText /\ ~MessageShowsInputMapping)
                   => other.exc = result.exc

\* The mapping given as bytesTransferredByUserId: to the Metrics constructor,
\* or in the body of the response to get_metrics.
GivenMetrics ==
    IF call.op = "Metrics" THEN call.args[1].map ELSE reply.body.obj

\* bytesTransferredByUserId is given and is a mapping whose values are integers.
MetricsMappingGiven ==
    /\ \/ Called("Metrics")
       \/ /\ Called("get_metrics") /\ GotResponse /\ ~IsErrorStatus(reply.status)
          /\ reply.body.shape = "object"
    /\ "bytesTransferredByUserId" \in DOMAIN GivenMetrics
    /\ GivenMetrics["bytesTransferredByUserId"].t = "dict"
    /\ \A k \in DOMAIN GivenMetrics["bytesTransferredByUserId"].map :
           GivenMetrics["bytesTransferredByUserId"].map[k].t = "int"

BytesByUser == GivenMetrics["bytesTransferredByUserId"].map

(***************************************************************************)
(* C17.  A Metrics mapping with any negative value fails validation        *)
(* (pydantic's ValidationError from the constructor, ValidationError from  *)
(* get_metrics).  A mapping whose keys are non-empty strings and whose     *)
(* values are all non-negative is accepted, and the instance holds the     *)
(* mapping exactly: same keys, same values.                                *)
(***************************************************************************)
C17_MetricsNonNegative_Preserved ==
    MetricsMappingGiven =>
        /\ (\E k \in DOMAIN BytesByUser : BytesByUser[k].n < 0) =>
               RaisedA(IF call.op = "Metrics" THEN "PydanticValidationError"
                                              ELSE "ValidationError")
        /\ (\A k \in DOMAIN BytesByUser : k # "" /\ BytesByUser[k].n >= 0) =>
               /\ Returned
               /\ result.val.t = "model" =>
                      /\ DOMAIN result.val.doc = {"bytesTransferredByUserId"}
                      /\ result.val.doc["bytesTransferredByUserId"] = JDict(BytesByUser)

C17_Witness ==
    /\ MetricsMappingGiven /\ Called("Metrics")
    /\ DOMAIN BytesByUser = {"user1"} /\ BytesByUser["user1"].n < 0
    /\ RaisedA("PydanticValidationError")

\* The other half: a mapping of non-negative values comes back from
\* get_metrics as it was received.
C17_WitnessPreserved ==
    /\ MetricsMappingGiven /\ Called("get_metrics")
    /\ DOMAIN BytesByUser = {"user1"} /\ BytesByUser["user1"].n > 0
    /\ Returned /\ result.val.t = "model"
    /\ result.val.doc["bytesTransferredByUserId"].map["user1"] = reply.body.obj["bytesTransferredByUserId"].map["user1"]

\* The schemas that require a port, and the field that holds it.
PortField(cls) == IF cls = "Server" THEN "portForNewAccessKeys" ELSE "port"
PortClasses == {"Server", "AccessKey", "ServerPort", "AccessKeyCreateRequest"}

SchemaOf(cls) ==
    CASE cls = "Server"     -> Server
      [] cls = "AccessKey"  -> AccessKey
      [] cls = "ServerPort" -> ServerPort
      [] cls = "AccessKeyCreateRequest" -> AccessKeyCreateRequest

ConstructorArgs == call.args[1].map

\* The constructor of cls was called with an integer port, every other
\* field holding a value its constraint accepts.
ConstructedWithPort(cls) ==
    /\ Called(cls)
    /\ PortField(cls) \in DOMAIN ConstructorArgs
    /\ ConstructorArgs[PortField(cls)].t = "int"
    /\ FieldErrors(SchemaOf(cls), ConstructorArgs) \subseteq {PortField(cls)}

GivenPort == ConstructorArgs[PortField(call.op)].n

(***************************************************************************)
(* C18.  Every schema in which a port is required (Server, AccessKey,      *)
(* ServerPort, AccessKeyCreateRequest) accepts the ports 1 and 65535 and   *)
(* rejects every port outside 1..65535: 0, a negative one, 65536.          *)
(***************************************************************************)
C18_PortWithin1And65535 ==
    \A cls \in PortClasses :
        ConstructedWithPort(cls) =>
            /\ GivenPort \in 1..65535 => Returned
            /\ GivenPort \notin 1..65535 => RaisedA("PydanticValidationError")

\* What holds: the three response schemas accept exactly 1..65535;
\* AccessKeyCreateRequest accepts exactly 0..65535, and is rejected when the
\* port is left out: the field is required there too.
C18_PortRangePerSchema ==
    /\ \A cls \in PortClasses \ {"AccessKeyCreateRequest"} :
           ConstructedWithPort(cls) =>
               /\ GivenPort \in 1..65535 => Returned
               /\ GivenPort \notin 1..65535 => RaisedA("PydanticValidationError")
    /\ ConstructedWithPort("AccessKeyCreateRequest") =>
           /\ GivenPort \in 0..65535 => Returned
           /\ GivenPort \notin 0..65535 => RaisedA("PydanticValidationError")
    /\ (Called("AccessKeyCreateRequest") /\ "port" \notin DOMAIN ConstructorArgs) =>
           RaisedA("PydanticValidationError")

PutOperations == {"update_server_port", "set_access_key_data_limit"}

(***************************************************************************)
(* C19.  The body update_server_port and set_access_key_data_limit hand    *)
(* to the transport is always the flat mapping {port: n}, {bytes: n} with  *)
(* n an integer, whether the argument is a raw integer or a typed          *)
(* ServerPort / DataLimit record.                                          *)
(***************************************************************************)
C19_BodyIsFlatInteger ==
    CalledIn(PutOperations) =>
        /\ sent # <<>>
        /\ \A i \in 1..Len(sent) :
               /\ sent[i].json = OperationBody
               /\ Serializable(sent[i].json)

\* What holds: a raw integer goes into the body as it is.
C19_RawIntegerBodyIsFlat ==
    (CalledIn(PutOperations) /\ RawArgument) =>
        /\ Len(sent) = 1
        /\ sent[1].json = OperationBody
        /\ Serializable(sent[1].json)

====
